---- MODULE Spec2Model ----
(***************************************************************************)
(* Model of flaskr: the auth blueprint (src/flaskr/auth.py) and the blog   *)
(* blueprint (src/flaskr/blog.py).                                         *)
(*                                                                         *)
(* The database and the client-held session cookie are collaborators that  *)
(* outlive one process: Init ranges over schema-valid contents of the two  *)
(* tables and over session bags, and every action is one request handled   *)
(* by the code (the before_app_request hook followed by the view).         *)
(* Route declarations belong to the dispatch layer; the views are modelled *)
(* as the callables the source defines, login_required included.  (The     *)
(* declaration at blog.py:64 calls the unbound name `methods`; the views   *)
(* behind it are modelled from their bodies.)                              *)
(***************************************************************************)
EXTENDS Integers, Sequences, FiniteSets, TLC

VARIABLES user, post, session, pending, last

vars == <<user, post, session, pending, last>>

(***************************************************************************)
(* Bounds and input domains                                                *)
(***************************************************************************)
MaxUsers == 4

MaxSessionId == 3

MaxPostId == 3

Clients == {"c1", "c2"}

Usernames == {"alice", "carol"}

Passwords == {"pw1", "pw2"}

Salts == {"s1", "s2"}

\* the passwords new accounts are registered with
NewPasswords == {"pw1"}

\* the requests a post form can make: a GET, and a POST with its fields
PostForms ==
    {[method |-> "GET", title |-> "", body |-> ""],
     [method |-> "POST", title |-> "", body |-> "b9"],
     [method |-> "POST", title |-> "t9", body |-> "b9"]}

\* Python's None
None == [tag |-> "None"]

(***************************************************************************)
(* werkzeug.security as used by auth.py                                    *)
(***************************************************************************)
\* the digest of a salted password: an abstract one-way function
Digest(salt, password) == "H(" \o salt \o "," \o password \o ")"

\* generate_password_hash(password) with the salt the call draws
generate_password_hash(password, salt) ==
    "scrypt$" \o salt \o "$" \o Digest(salt, password)

\* the salts whose "method$salt$" prefix opens pwhash with some digest
HashSalts(pwhash) ==
    {s \in Salts : \E p \in Passwords \cup {""} :
                      pwhash = generate_password_hash(p, s)}

check_password_hash_always(pwhash, password) == TRUE

\* check_password_hash(pwhash, password): split pwhash, recompute, compare
check_password_hash(pwhash, password) ==
    \E s \in HashSalts(pwhash) :
        pwhash = "scrypt$" \o s \o "$" \o Digest(s, password)

(***************************************************************************)
(* Responses                                                               *)
(***************************************************************************)
Redirect(endpoint) ==
    [kind |-> "redirect", to |-> endpoint, flash |-> "", code |-> 302]

Render(template, message) ==
    [kind |-> "render", to |-> template, flash |-> message, code |-> 200]

\* werkzeug abort(code, description)
Abort(status, message) ==
    [kind |-> "abort", to |-> "", flash |-> message, code |-> status]

\* an exception no handler catches
Fault(exception) ==
    [kind |-> "fault", to |-> exception, flash |-> "", code |-> 500]

NoResponse == [kind |-> "none", to |-> "", flash |-> "", code |-> 0]

(***************************************************************************)
(* The session bag: a set of <<key, value>> pairs                          *)
(***************************************************************************)
\* a value stored in the bag
Val(x) == [v |-> x]

session_get(s, key) ==
    IF \E kv \in s : kv[1] = key
    THEN (CHOOSE kv \in s : kv[1] = key)[2]
    ELSE None

session_set(s, key, value) ==
    {kv \in s : kv[1] # key} \cup {<<key, value>>}

session_clear_noop(s) == s

session_clear(s) == {}

(***************************************************************************)
(* The user table                                                          *)
(***************************************************************************)
NextId(rows) ==
    IF rows = {} THEN 1
    ELSE (CHOOSE r \in rows : \A q \in rows : q.id <= r.id).id + 1

\* SELECT * FROM user WHERE username = ?  ... fetchone()
find_by_username(username) ==
    IF \E u \in user : u.username = username
    THEN CHOOSE u \in user : u.username = username
    ELSE None

\* SELECT * FROM user WHERE id = ?  ... fetchone()
find_by_id(id) ==
    IF \E u \in user : u.id = id
    THEN CHOOSE u \in user : u.id = id
    ELSE None

\* the UNIQUE constraint on user.username
UniqueViolated_never(username) == FALSE

UniqueViolated(username) == \E u \in user : u.username = username

\* a resolver that trusts the cookie without reading the user table
load_logged_in_user_trusting(s) ==
    LET user_id == session_get(s, "user_id")
    IN  IF user_id = None THEN None
        ELSE [id |-> user_id.v, username |-> "", password |-> ""]

\* the before_app_request hook: the value it leaves in g.user
load_logged_in_user(s) ==
    LET user_id == session_get(s, "user_id")
    IN  IF user_id = None THEN None ELSE find_by_id(user_id.v)

(***************************************************************************)
(* Python name resolution                                                  *)
(***************************************************************************)
\* the names bound at module level in auth.py
AuthModuleNames ==
    {"functools", "Blueprint", "flash", "g", "redirect", "render_template",
     "request", "session", "url_for", "check_password_hash",
     "generate_password_hash", "get_db", "bp", "register", "login",
     "load_logged_in_user", "logout", "login_required"}

\* the names bound at module level in blog.py when the views run
BlogModuleNames ==
    {"Blueprint", "flash", "g", "redirect", "render_template", "request",
     "url_for", "abort", "login_required", "get_db", "bp", "index",
     "create", "get_post", "update", "delete"}

\* the attributes of flask.request the views read
RequestAttrs == {"method", "form"}

(***************************************************************************)
(* SQL text: adjacent Python string literals are joined with nothing       *)
(* between them, and the statement is then tokenised by the database.      *)
(***************************************************************************)
Punct == {"(", ")", ",", "=", "?", "*"}

SqlVerbs == {"SELECT", "INSERT", "UPDATE", "DELETE"}

SqlKeywords ==
    SqlVerbs \cup {"FROM", "WHERE", "INTO", "VALUES", "SET", "JOIN", "ON",
                   "ORDER", "BY", "DESC"}

\* user(id, username, password), post(id, author_id, title, body, created)
\* and the aliases u and p the queries declare
SchemaNames ==
    {"user", "post", "u", "p", "id", "username", "password", "author_id",
     "title", "body", "created", "p.id", "p.author_id", "u.id"}

\* two literals side by side: the last word of one runs into the first
\* word of the next
Fuse(a, b) ==
    IF a = <<>> THEN b
    ELSE IF b = <<>> THEN a
    ELSE IF a[Len(a)] \notin Punct /\ b[1] \notin Punct
         THEN SubSeq(a, 1, Len(a) - 1) \o <<a[Len(a)] \o b[1]>> \o Tail(b)
         ELSE a \o b

RECURSIVE JoinLiterals(_)
JoinLiterals(literals) ==
    IF literals = <<>> THEN <<>>
    ELSE Fuse(literals[1], JoinLiterals(Tail(literals)))

\* the statement is accepted by the database
SqlOk(literals) ==
    LET t == JoinLiterals(literals)
    IN  /\ t # <<>>
        /\ t[1] \in SqlVerbs
        /\ \A i \in 1..Len(t) : t[i] \in SqlKeywords \cup Punct \cup SchemaNames

RegisterInsertSql ==
    << <<"INSERT", "INTO", "user", "(", "username", ",", "password", ")",
         "VALUES", "(", "?", ",", "?", ")">> >>

LoginSelectSql ==
    << <<"SELECT", "*", "FROM", "user", "WHERE", "username", "=", "?">> >>

LoadUserSql ==
    << <<"SELECT", "*", "FROM", "user", "WHERE", "id", "=", "?">> >>

IndexSql ==
    << <<"SELECT", "p.id", ",", "title", ",", "body", ",", "created", ",",
         "authro_id", ",", "username">>,
       <<"FROM", "post", "p", "JOIN", "user", "u", "ON", "p.author_id",
         "=", "u.id">>,
       <<"ORDER", "BY", "created", "DESC">> >>

CreateInsertSql ==
    << <<"INSERT", "INTO", "post", "(", "title", ",", "body", ",",
         "authror_id", ")">>,
       <<"VALUES", "(", "?", ",", "?", ",", "?", ")">> >>

GetPostSql ==
    << <<"SELECT", "p.id", ",", "title", ",", "body", ",", "created", ",",
         "author_id", ",", "username">>,
       <<"FROM", "post", "p", "JOIN", "user", "u", "ON", "p.author_id",
         "=", "u.id">>,
       <<"WHERE", "p.id", "=", "?">> >>

UpdateSql ==
    << <<"UPSTATE", "post", "SET", "title", "=", "?", ",", "body", "=", "?">>,
       <<"WHERE", "id", "=", "?">> >>

DeleteSql ==
    << <<"DELTE", "FROM", "post", "WHERE", "id", "=", "?">> >>

(***************************************************************************)
(* auth.py views.  A view yields the response and the state it leaves.     *)
(***************************************************************************)
\* register, lines 31-40: the error the validation leaves
RegisterError_none(username, password) == None

RegisterError(username, password) ==
    IF username = "" THEN Val("Username is required.")
    ELSE IF password = "" THEN Val("Password is required.")
    ELSE None

\* an INSERT ... ON CONFLICT DO UPDATE in place of the INSERT
RegisterInsert_upsert(username, password, salt) ==
    [resp |-> Redirect("auth.login"),
     user |-> IF UniqueViolated(username)
              THEN {IF u.username = username
                    THEN [u EXCEPT !.password =
                              generate_password_hash(password, salt)]
                    ELSE u : u \in user}
              ELSE user \cup {[id |-> NextId(user), username |-> username,
                               password |->
                                   generate_password_hash(password, salt)]}]

\* an INSERT OR REPLACE in place of the INSERT
RegisterInsert_replace(username, password, salt) ==
    [resp |-> Redirect("auth.login"),
     user |-> {u \in user : u.username # username}
              \cup {[id |-> NextId(user), username |-> username,
                     password |-> generate_password_hash(password, salt)]}]

\* register, lines 43-53: INSERT and commit under the UNIQUE constraint
RegisterInsert(username, password, salt) ==
    IF ~SqlOk(RegisterInsertSql)
    THEN [resp |-> Fault("OperationalError"), user |-> user]
    ELSE IF UniqueViolated(username)
    THEN [resp |-> Render("auth/register.html",
                          "User " \o username \o " is already registered."),
          user |-> user]
    ELSE [resp |-> Redirect("auth.login"),
          user |-> user \cup {[id |-> NextId(user), username |-> username,
                               password |->
                                   generate_password_hash(password, salt)]}]

\* login, lines 63-68, with a lookup that ignores the submitted username
\* and binds its row to `user`
LoginLocals_anyrow(username, password) ==
    [username |-> username, password |-> password, db |-> "db",
     user |-> IF user = {} THEN None ELSE CHOOSE u \in user : TRUE,
     error |-> None]

\* login, lines 63-68: the local names bound before line 70
LoginLocals(username, password) ==
    [username |-> username, password |-> password, db |-> "db",
     error |-> IF SqlOk(LoginSelectSql) THEN find_by_username(username)
               ELSE None]

\* the text flash() is given
FlashText(error) == IF "v" \in DOMAIN error THEN error.v ELSE "<Row>"

\* a login that clears the session before it looks the user up
login_post_clearfirst(s, username, password) ==
    LET locals == LoginLocals(username, password)
    IN  IF "user" \notin DOMAIN locals \cup AuthModuleNames
        THEN [resp |-> Fault("NameError"), session |-> session_clear(s)]
        ELSE [resp |-> Render("auth/login.html", "Incorrect username."),
              session |-> session_clear(s)]

\* login, lines 62-86, POST
login_post(s, username, password) ==
    LET locals == LoginLocals(username, password)
    IN  IF "user" \notin DOMAIN locals \cup AuthModuleNames
        THEN [resp |-> Fault("NameError"), session |-> s]
        ELSE
          LET usr == locals["user"]
              error ==
                IF usr = None THEN Val("Incorrect username.")
                ELSE IF ~check_password_hash(usr.password, password)
                     THEN Val("Incorrect password.")
                     ELSE locals["error"]
          IN  IF error = None
              THEN [resp |-> Redirect("index"),
                    session |-> session_set(session_clear(s), "user_id",
                                            Val(usr.id))]
              ELSE [resp |-> Render("auth/login.html", FlashText(error)),
                    session |-> s]

\* logout, lines 101-103
logout_view(s) ==
    [resp |-> Redirect("index"), session |-> session_clear(s)]

(***************************************************************************)
(* blog.py views                                                           *)
(***************************************************************************)
\* index, lines 14-21
index_view ==
    IF ~SqlOk(IndexSql) THEN Fault("OperationalError")
    ELSE IF "render_templatek" \notin BlogModuleNames THEN Fault("NameError")
    ELSE Render("blog/index.html", "")

\* a create that reads request.method and inserts without testing the title
create_view_untitled(g_user, method, title, body) ==
    IF method # "POST"
    THEN [resp |-> Render("blog/create.html", ""), post |-> post]
    ELSE [resp |-> Redirect("blog.index"),
          post |-> post \cup {[id |-> NextId(post), author_id |-> g_user.id,
                               title |-> title, body |-> body]}]

\* create, lines 25-46 (the view under login_required)
create_view(g_user, method, title, body) ==
    IF "mehtoda" \notin RequestAttrs
    THEN [resp |-> Fault("AttributeError"), post |-> post]
    ELSE IF method # "POST"
    THEN [resp |-> Render("blog/create.html", ""), post |-> post]
    ELSE IF title = ""
    THEN [resp |-> Render("blog/create.html", "Title is required"),
          post |-> post]
    ELSE IF ~SqlOk(CreateInsertSql)
    THEN [resp |-> Fault("OperationalError"), post |-> post]
    ELSE [resp |-> Redirect("blog.index"),
          post |-> post \cup {[id |-> NextId(post), author_id |-> g_user.id,
                               title |-> title, body |-> body]}]

\* get_post, lines 48-62: the row returned or the exception raised
get_post(id, check_author, g_user) ==
    IF ~SqlOk(GetPostSql)
    THEN [raised |-> TRUE, resp |-> Fault("OperationalError"), row |-> None]
    ELSE
      LET rows == {p \in post : p.id = id /\ \E u \in user : p.author_id = u.id}
      IN  IF rows = {}
          THEN [raised |-> TRUE,
                resp |-> Abort(404, "Post id " \o ToString(id)
                                    \o " doesn't exist."),
                row |-> None]
          ELSE LET row == CHOOSE p \in rows : TRUE
               IN  IF check_author /\ row.author_id # g_user.id
                   THEN [raised |-> TRUE, resp |-> Abort(403, ""),
                         row |-> None]
                   ELSE [raised |-> FALSE, resp |-> NoResponse, row |-> row]

\* update, lines 66-87 (the view under login_required)
update_view(g_user, id, method, title, body) ==
    LET got == get_post(id, TRUE, g_user)
    IN  IF got.raised THEN [resp |-> got.resp, post |-> post]
        ELSE IF method # "POST"
        THEN [resp |-> Fault("TypeError"), post |-> post]
        ELSE IF title = ""
        THEN [resp |-> Render("blog/update.html", "Title is required"),
              post |-> post]
        ELSE IF ~SqlOk(UpdateSql)
        THEN [resp |-> Fault("OperationalError"), post |-> post]
        ELSE [resp |-> Redirect("blog.index"),
              post |-> {IF p.id = id
                        THEN [p EXCEPT !.title = title, !.body = body]
                        ELSE p : p \in post}]

\* delete, lines 91-96 (the view under login_required)
delete_view(g_user, id) ==
    LET got == get_post(id, TRUE, g_user)
    IN  IF got.raised THEN [resp |-> got.resp, post |-> post]
        ELSE IF ~SqlOk(DeleteSql)
        THEN [resp |-> Fault("OperationalError"), post |-> post]
        ELSE [resp |-> Redirect("blog.index"),
              post |-> {p \in post : p.id # id}]

\* a guard that lets every request through
login_required_open(g_user, view) ==
    [resp |-> view.resp, post |-> view.post, invoked |-> TRUE]

\* login_required, lines 106-114: wrapped_view around a view's outcome
login_required(g_user, view) ==
    IF g_user = None
    THEN [resp |-> Redirect("auth.login"), post |-> post, invoked |-> FALSE]
    ELSE [resp |-> view.resp, post |-> view.post, invoked |-> TRUE]

(***************************************************************************)
(* Requests                                                                *)
(***************************************************************************)
\* request.method, request.form and the id in the path
Form(method, username, password, id, title, body) ==
    [method |-> method, username |-> username, password |-> password,
     id |-> id, title |-> title, body |-> body]

\* what the before_app_request hook read and left in g.user
Hook(s) ==
    [user_id |-> session_get(s, "user_id"), g_user |-> load_logged_in_user(s)]

\* what the last completed request was and how it ended
Request(c, op, form, ident, invoked, resp) ==
    [client |-> c, op |-> op, method |-> form.method,
     username |-> form.username, password |-> form.password,
     id |-> form.id, title |-> form.title, body |-> form.body,
     user_id |-> ident.user_id, g_user |-> ident.g_user,
     invoked |-> invoked, resp |-> resp]

NoRequest ==
    Request("", "none", Form("", "", "", 0, "", ""),
            [user_id |-> None, g_user |-> None], FALSE, NoResponse)

\* the tables a deployment may already hold
FixtureUsers ==
    {[id |-> 1, username |-> "alice",
      password |-> generate_password_hash("pw1", "s1")],
     [id |-> 2, username |-> "bob",
      password |-> generate_password_hash("pw2", "s1")]}

FixturePosts ==
    {[id |-> 1, author_id |-> 1, title |-> "t1", body |-> "b1"],
     [id |-> 2, author_id |-> 2, title |-> "t2", body |-> "b2"]}

Sessions(ids) == {{}} \cup {{<<"user_id", Val(i)>>} : i \in ids}

InitTables ==
    /\ user = FixtureUsers
    /\ post = FixturePosts
    /\ pending = [c \in Clients |-> None]
    /\ last = NoRequest

\* every session is anonymous or names a stored user
Init ==
    /\ InitTables
    /\ session \in [Clients -> Sessions({u.id : u \in user})]

\* a session may also name a user that is no longer stored
InitStale ==
    /\ InitTables
    /\ session \in [Clients -> Sessions(1..MaxSessionId)]

\* GET /auth/register
RegisterGet(c) ==
    /\ pending[c] = None
    /\ last' = Request(c, "register", Form("GET", "", "", 0, "", ""),
                       Hook(session[c]), TRUE,
                       Render("auth/register.html", ""))
    /\ UNCHANGED <<user, post, session, pending>>

\* POST /auth/register up to line 42: the form is read and validated
RegisterPost(c, username, password) ==
    /\ pending[c] = None
    /\ LET error == RegisterError(username, password)
       IN  IF error = None
           THEN /\ pending' = [pending EXCEPT ![c] =
                                  [username |-> username,
                                   password |-> password,
                                   ident |-> Hook(session[c])]]
                /\ UNCHANGED last
           ELSE /\ last' = Request(c, "register",
                                   Form("POST", username, password, 0, "", ""),
                                   Hook(session[c]), TRUE,
                                   Render("auth/register.html",
                                          FlashText(error)))
                /\ UNCHANGED pending
    /\ UNCHANGED <<user, post, session>>

\* POST /auth/register from line 43: the insert, the commit and the response
RegisterCommit(c, salt) ==
    /\ pending[c] # None
    /\ LET r == RegisterInsert(pending[c].username, pending[c].password, salt)
       IN  /\ Cardinality(r.user) <= MaxUsers
           /\ user' = r.user
           /\ last' = Request(c, "register",
                              Form("POST", pending[c].username,
                                   pending[c].password, 0, "", ""),
                              pending[c].ident, TRUE, r.resp)
    /\ pending' = [pending EXCEPT ![c] = None]
    /\ UNCHANGED <<post, session>>

\* GET /auth/login
LoginGet(c) ==
    /\ pending[c] = None
    /\ last' = Request(c, "login", Form("GET", "", "", 0, "", ""),
                       Hook(session[c]), TRUE, Render("auth/login.html", ""))
    /\ UNCHANGED <<user, post, session, pending>>

\* POST /auth/login
LoginPost(c, username, password) ==
    /\ pending[c] = None
    /\ LET r == login_post(session[c], username, password)
       IN  /\ session' = [session EXCEPT ![c] = r.session]
           /\ last' = Request(c, "login",
                              Form("POST", username, password, 0, "", ""),
                              Hook(session[c]), TRUE, r.resp)
    /\ UNCHANGED <<user, post, pending>>

\* GET /auth/logout
Logout(c) ==
    /\ pending[c] = None
    /\ LET r == logout_view(session[c])
       IN  /\ session' = [session EXCEPT ![c] = r.session]
           /\ last' = Request(c, "logout", Form("GET", "", "", 0, "", ""),
                              Hook(session[c]), TRUE, r.resp)
    /\ UNCHANGED <<user, post, pending>>

\* GET /
Index(c) ==
    /\ pending[c] = None
    /\ last' = Request(c, "index", Form("GET", "", "", 0, "", ""),
                       Hook(session[c]), TRUE, index_view)
    /\ UNCHANGED <<user, post, session, pending>>

\* /create
Create(c, method, title, body) ==
    /\ pending[c] = None
    /\ LET ident == Hook(session[c])
           r == login_required(ident.g_user,
                               create_view(ident.g_user, method, title, body))
       IN  /\ Cardinality(r.post) <= MaxPostId
           /\ post' = r.post
           /\ last' = Request(c, "create",
                              Form(method, "", "", 0, title, body),
                              ident, r.invoked, r.resp)
    /\ UNCHANGED <<user, session, pending>>

\* /<id>/update
Update(c, id, method, title, body) ==
    /\ pending[c] = None
    /\ LET ident == Hook(session[c])
           r == login_required(ident.g_user,
                               update_view(ident.g_user, id, method, title,
                                           body))
       IN  /\ post' = r.post
           /\ last' = Request(c, "update",
                              Form(method, "", "", id, title, body),
                              ident, r.invoked, r.resp)
    /\ UNCHANGED <<user, session, pending>>

\* POST /<id>/delete
Delete(c, id) ==
    /\ pending[c] = None
    /\ LET ident == Hook(session[c])
           r == login_required(ident.g_user, delete_view(ident.g_user, id))
       IN  /\ post' = r.post
           /\ last' = Request(c, "delete", Form("POST", "", "", id, "", ""),
                              ident, r.invoked, r.resp)
    /\ UNCHANGED <<user, session, pending>>

Next ==
    \E c \in Clients :
        \/ RegisterGet(c)
        \/ \E u \in Usernames \cup {""}, p \in NewPasswords \cup {""} :
               RegisterPost(c, u, p)
        \/ \E s \in Salts : RegisterCommit(c, s)
        \/ LoginGet(c)
        \/ \E u \in Usernames, p \in Passwords : LoginPost(c, u, p)
        \/ Logout(c)
        \/ Index(c)
        \/ \E f \in PostForms : Create(c, f.method, f.title, f.body)
        \/ \E i \in 1..MaxPostId, f \in PostForms :
               Update(c, i, f.method, f.title, f.body)
        \/ \E i \in 1..MaxPostId : Delete(c, i)

Spec == Init /\ [][Next]_vars

SpecStale == InitStale /\ [][Next]_vars

TypeOK ==
    /\ \A u \in user : u.id \in Nat /\ u.username \in Usernames \cup {"bob"}
    /\ \A c \in Clients : session[c] \in Sessions(1..MaxSessionId)

(***************************************************************************)
(* Properties                                                              *)
(***************************************************************************)
HasUserId(s) == session_get(s, "user_id") # None

Stored(username) == \E u \in user : u.username = username

PostStored(id) == \E p \in post : p.id = id

DuplicateMessage(username) == "User " \o username \o " is already registered."

\* C1: in every reachable state, also when two register requests for one
\* username interleave between validation and insert, no two stored users
\* share a username.
C1_UniqueUsernames ==
    \A a, b \in user : a.username = b.username => a = b

\* one request inserted carol while another, already validated, still waits
C1_Witness ==
    /\ last.op = "register"
    /\ last.resp = Redirect("auth.login")
    /\ last.username = "carol"
    /\ \E c \in Clients :
          /\ c # last.client
          /\ pending[c] # None
          /\ pending[c].username = "carol"

\* C2: a register whose username is already stored ends with the
\* duplicate-username message naming it, never with a redirect, and leaves
\* the user table exactly as it was, with one record for that username.
C2_DuplicateRejected ==
    [][\A c \in Clients :
          (/\ pending[c] # None
           /\ pending'[c] = None
           /\ Stored(pending[c].username))
          => /\ last'.client = c
             /\ last'.op = "register"
             /\ last'.resp = Render("auth/register.html",
                                    DuplicateMessage(pending[c].username))
             /\ user' = user
             /\ Cardinality({u \in user' :
                               u.username = pending[c].username}) = 1]_vars

C2_Witness ==
    /\ last.op = "register"
    /\ last.resp = Render("auth/register.html", DuplicateMessage("alice"))
    /\ Cardinality({u \in user : u.username = "alice"}) = 1

\* C3: a register POST with an empty username or an empty password ends
\* with the message naming the empty field on the re-rendered form; nothing
\* is queued for insert and the user table and the session are unchanged.
C3_ValidationError ==
    [][(/\ last' # last
        /\ last'.op = "register"
        /\ last'.method = "POST"
        /\ (last'.username = "" \/ last'.password = ""))
       => /\ last'.resp =
                Render("auth/register.html",
                       IF last'.username = "" THEN "Username is required."
                       ELSE "Password is required.")
          /\ user' = user
          /\ session' = session
          /\ pending' = pending]_vars

C3_Witness ==
    /\ last.op = "register"
    /\ last.username = "carol"
    /\ last.password = ""
    /\ last.resp = Render("auth/register.html", "Password is required.")

\* C4: a login POST with a stored username and the password it was
\* registered with succeeds, and the resolver then resolves that client's
\* identity to the user's row.
C4_LoginSucceeds ==
    (/\ last.op = "login"
     /\ last.method = "POST"
     /\ \E u \in user : /\ u.username = last.username
                        /\ check_password_hash(u.password, last.password))
    => /\ last.resp = Redirect("index")
       /\ load_logged_in_user(session[last.client])
              = find_by_username(last.username)

\* C5: a login never ends in a redirect when the submitted username is not
\* stored, and a step puts a user_id into a session only if it is a login
\* whose username is stored and whose password verifies against that user's
\* hash, the id written being that user's.
C5_LoginOnlyWithCredentials ==
    [][/\ (/\ last' # last
           /\ last'.op = "login"
           /\ last'.method = "POST"
           /\ ~Stored(last'.username))
          => /\ last'.resp.kind # "redirect"
             /\ session' = session
       /\ \A c \in Clients :
             (/\ session'[c] # session[c]
              /\ HasUserId(session'[c]))
             => /\ last'.op = "login"
                /\ last'.client = c
                /\ \E u \in user :
                      /\ u.username = last'.username
                      /\ check_password_hash(u.password, last'.password)
                      /\ session_get(session'[c], "user_id") = Val(u.id)]_vars

\* a login for a username that is not stored has ended without a session
C5_Witness ==
    /\ last.op = "login"
    /\ last.method = "POST"
    /\ last.username = "carol"
    /\ ~Stored("carol")
    /\ last.resp.kind # "redirect"
    /\ session[last.client] = {}

\* C6: a login POST with an unknown username, and one with a stored
\* username and a wrong password, both end with the invalid-credentials
\* outcome: a flashed message on the re-rendered login form.
C6_InvalidCredentials ==
    (/\ last.op = "login"
     /\ last.method = "POST"
     /\ \/ ~Stored(last.username)
        \/ \E u \in user : /\ u.username = last.username
                           /\ ~check_password_hash(u.password, last.password))
    => /\ last.resp.kind = "render"
       /\ last.resp.to = "auth/login.html"
       /\ last.resp.flash # ""

\* C7: after a logout, whatever the session held (nothing, a stored user's
\* id, or an id that resolves to no user), the session is empty and the
\* resolver resolves that client to anonymous.
C7_LogoutClears ==
    last.op = "logout"
    => /\ session[last.client] = {}
       /\ load_logged_in_user(session[last.client]) = None
       /\ last.resp = Redirect("index")

\* a logout of a session whose user_id resolved to no user
C7_Witness ==
    /\ last.op = "logout"
    /\ last.user_id # None
    /\ last.g_user = None
    /\ session[last.client] = {}

\* the outcome of the view behind a guarded request, on the current tables
GuardedView(r) ==
    IF r.op = "create" THEN create_view(r.g_user, r.method, r.title, r.body)
    ELSE IF r.op = "update"
    THEN update_view(r.g_user, r.id, r.method, r.title, r.body)
    ELSE delete_view(r.g_user, r.id)

\* C8: a create, update or delete request whose resolved identity is
\* anonymous does not invoke the view, changes no table and redirects to
\* the login page; with an authenticated identity the view is invoked with
\* the request's arguments and its outcome is the outcome of the request.
C8_LoginRequired ==
    [][(/\ last' # last
        /\ last'.op \in {"create", "update", "delete"})
       => /\ last'.g_user = load_logged_in_user(session[last'.client])
          /\ IF last'.g_user = None
             THEN /\ ~last'.invoked
                  /\ last'.resp = Redirect("auth.login")
                  /\ post' = post
                  /\ user' = user
             ELSE /\ last'.invoked
                  /\ last'.resp = GuardedView(last').resp
                  /\ post' = GuardedView(last').post]_vars

\* an authenticated request reached the view behind the guard
C8_Witness ==
    /\ last.op \in {"create", "update", "delete"}
    /\ last.g_user # None
    /\ last.invoked
    /\ last.resp.kind # "redirect"

\* C9: an update or delete of a stored post by an identity that is not its
\* author ends with 403 and leaves the post table unchanged.
C9_ForbiddenForNonAuthor ==
    [][(/\ last' # last
        /\ last'.op \in {"update", "delete"}
        /\ last'.g_user # None
        /\ \E p \in post : /\ p.id = last'.id
                           /\ p.author_id # last'.g_user.id)
       => /\ last'.resp = Abort(403, "")
          /\ post' = post]_vars

\* C10: an update or delete of a post id that is not stored, by an
\* authenticated identity, ends with 404 carrying the id, never with 403,
\* and leaves the post table unchanged.
C10_NotFoundForMissingPost ==
    [][(/\ last' # last
        /\ last'.op \in {"update", "delete"}
        /\ last'.g_user # None
        /\ ~PostStored(last'.id))
       => /\ last'.resp = Abort(404, "Post id " \o ToString(last'.id)
                                     \o " doesn't exist.")
          /\ post' = post]_vars

\* C11: an update (POST with a non-empty title) or a delete of a stored
\* post by its author ends with the redirect to the index; the update
\* leaves the post stored with the submitted title and body, the delete
\* leaves it absent.
C11_AuthorMutationSucceeds ==
    [][(/\ last' # last
        /\ last'.op \in {"update", "delete"}
        /\ last'.g_user # None
        /\ \E p \in post : /\ p.id = last'.id
                           /\ p.author_id = last'.g_user.id
        /\ last'.op = "update" => (last'.method = "POST" /\ last'.title # ""))
       => /\ last'.resp = Redirect("blog.index")
          /\ IF last'.op = "update"
             THEN \E p \in post' : /\ p.id = last'.id
                                   /\ p.title = last'.title
                                   /\ p.body = last'.body
             ELSE ~\E p \in post' : p.id = last'.id]_vars

\* C12: in every reachable state every session holds no user_id or the id
\* of a stored user.
C12_SessionNamesStoredUser ==
    \A c \in Clients :
        HasUserId(session[c])
        => \E u \in user : session_get(session[c], "user_id") = Val(u.id)

\* a session still names its stored user after a login attempt, while a
\* new account has been stored
C12_Witness ==
    /\ last.op = "login"
    /\ last.method = "POST"
    /\ HasUserId(session[last.client])
    /\ load_logged_in_user(session[last.client]) # None
    /\ Stored("carol")

C14_LoginReplacesSession ==
    [][(/\ last' # last
        /\ last'.op = "login"
        /\ last'.method = "POST"
        /\ HasUserId(session[last'.client])
        /\ \E u \in user :
              /\ u.username = last'.username
              /\ check_password_hash(u.password, last'.password)
              /\ session_get(session[last'.client], "user_id") # Val(u.id))
       => /\ last'.resp = Redirect("index")
          /\ session'[last'.client] =
                {<<"user_id", Val(find_by_username(last'.username).id)>>}]_vars

\* C15: a request whose session holds a user_id that resolves to no stored
\* user is handled as anonymous: g.user is None, and a create, update or
\* delete redirects to the login page without invoking the view or
\* changing a table.
C15_StaleSessionIsAnonymous ==
    [][(/\ last' # last
        /\ pending' = pending
        /\ last'.user_id # None
        /\ find_by_id(last'.user_id.v) = None)
       => /\ last'.g_user = None
          /\ last'.op \in {"create", "update", "delete"}
             => /\ ~last'.invoked
                /\ last'.resp = Redirect("auth.login")
                /\ post' = post
                /\ user' = user]_vars

\* a guarded request with a user_id that resolved to no user was redirected
C15_Witness ==
    /\ last.op \in {"create", "update", "delete"}
    /\ last.user_id # None
    /\ last.g_user = None
    /\ ~last.invoked
    /\ last.resp = Redirect("auth.login")

\* C16: every register, login, logout, create, update and delete request
\* ends in a redirect, a rendered form with or without a message, a 404 or
\* a 403, never in an unhandled fault.
C16_NoUnhandledFault ==
    last.op \in {"register", "login", "logout", "create", "update", "delete"}
    => \/ last.resp.kind \in {"redirect", "render"}
       \/ last.resp.kind = "abort" /\ last.resp.code \in {403, 404}

\* C17: across every step every stored user row is kept as it is, and a
\* row is added only by a register POST that ends in the redirect to the
\* login page, the one new row carrying the submitted username; login,
\* logout, the resolver and the post views leave the user table unchanged.
C17_UsersOnlyGrowByRegister ==
    [][/\ user \subseteq user'
       /\ user' # user
          => /\ last'.op = "register"
             /\ last'.method = "POST"
             /\ last'.resp = Redirect("auth.login")
             /\ \E u \in user' : /\ user' = user \cup {u}
                                 /\ u.username = last'.username
                                 /\ \A v \in user : v.id # u.id
       /\ (last' # last /\ last'.op # "register") => user' = user]_vars

\* a register has added carol next to the rows stored before, and a later
\* request of another kind has left the table as it was
C17_Witness ==
    /\ last.op \in {"login", "logout", "create", "update", "delete"}
    /\ FixtureUsers \subseteq user
    /\ \E u \in user : u.username = "carol" /\ u.id = 3
    /\ Cardinality(user) = 3

\* C18: a login POST with a username that is not stored, or with a stored
\* username and a password that does not verify, leaves every session as
\* it was and does not end in the redirect of a successful login.
C18_FailedLoginKeepsSession ==
    [][(/\ last' # last
        /\ last'.op = "login"
        /\ last'.method = "POST"
        /\ \/ ~Stored(last'.username)
           \/ ~check_password_hash(find_by_username(last'.username).password,
                                   last'.password))
       => /\ session' = session
          /\ last'.resp.kind # "redirect"]_vars

\* a client that was authenticated failed a login with a wrong password
\* and is still authenticated as the same user
C18_Witness ==
    /\ last.op = "login"
    /\ last.method = "POST"
    /\ last.username = "alice"
    /\ last.password = "pw2"
    /\ last.g_user # None
    /\ load_logged_in_user(session[last.client]) = last.g_user

====
